---- MODULE Spec2Model ----
(***************************************************************************)
(* Model of the conditional-execution rule engine of                       *)
(* lib/sqlalchemy/testing/exclusions.py: predicate objects, compound rule  *)
(* objects (skips, fails, tags), their composition operators, the          *)
(* decorator __call__ with its _sa_exclusion_extend accumulation, the      *)
(* fail_if block and the enforcement wrapper compound._do.                 *)
(*                                                                         *)
(* Objects live in two heaps (preds, rules) and are named by their index:  *)
(* Python sets of predicates compare members by identity, and __call__     *)
(* keeps a reference to the rule object, not a copy.                       *)
(*                                                                         *)
(* Text (descriptions, messages, printed lines) is a sequence of string    *)
(* tokens; "%" formatting and str.join concatenate token sequences.        *)
(*                                                                         *)
(* The module also models the task-tracking web application of app.py:     *)
(* the session of one browser, the users table, one tasks table per user   *)
(* and one action per request handler.                                     *)
(***************************************************************************)
EXTENDS Integers, Sequences, FiniteSets, TLC

VARIABLES
  preds,    \* heap of Predicate objects, by object id
  rules,    \* heap of compound objects, by object id
  ext,      \* per test: the rule its _sa_exclusion_extend refers to (0: not decorated)
  pc,       \* position of the current wrapper / block invocation
  cur,      \* the current invocation's frame
  stdout,   \* lines printed during the current invocation
  made,     \* history: per compound object, the call that constructed it
  applied,  \* history: per test, the union of the rules applied to it, as they were when applied
  session,  \* app.py: the browser's session (user_id 0: no user_id key)
  users,    \* app.py: the rows of table users, in order of insertion
  tasks,    \* app.py: per username, the rows of that user's tasks table
  seq,      \* app.py: per username, the last task_id AUTOINCREMENT gave out
  attempt,  \* history: the form of the /login request that put the user_id in the session
  response  \* history: the latest request and the response to it

exclusions == <<preds, rules, ext, pc, cur, stdout, made, applied>>

webapp == <<session, users, tasks, seq, attempt, response>>

vars == <<preds, rules, ext, pc, cur, stdout, made, applied,
          session, users, tasks, seq, attempt, response>>

\* ---------------------------------------------------------------- bounds

MaxRules == 2     \* compound objects test modules build (Spec)
MaxHeap == 3      \* compound objects built while composing rules (SpecAlg)
MaxPreds == 6     \* Predicate objects on the heap


\* ------------------------------------------------- web application: values

\* the tasks tables are given at most MaxTasks rows altogether
MaxTasks == 2

Usernames == {"ann", "bob"}
Passwords == {"pw1"}
TaskTexts == {"milk"}
Methods == {"GET", "POST"}

\* a form field that was not sent, or sent empty
NoField == ""

\* session.clear(): no user_id, no user_name
NoSession == [user_id |-> 0, user_name |-> NoField]

\* no /login request has put a user_id in the session since it was cleared
NoAttempt == [method |-> "none", username |-> NoField, password |-> NoField]

NoResponse ==
  [handler |-> "none", authed |-> FALSE, kind |-> "none", to |-> "none",
   read |-> FALSE, wrote |-> FALSE]

\* the database as created, and a browser that has sent nothing
InitWeb ==
  /\ session = NoSession
  /\ users = <<>>
  /\ tasks = [name \in Usernames |-> {}]
  /\ seq = [name \in Usernames |-> 0]
  /\ attempt = NoAttempt
  /\ response = NoResponse

\* ------------------------------------------------------- values and text

NoText == <<>>    \* a description / reason of None

BoolStr(b) == IF b THEN "True" ELSE "False"

RECURSIVE JoinTexts(_, _)
\* sep.join(texts)
JoinTexts(texts, sep) ==
  IF Len(texts) = 0 THEN <<>>
  ELSE IF Len(texts) = 1 THEN texts[1]
  ELSE texts[1] \o <<sep>> \o JoinTexts(Tail(texts), sep)

\* text `part` occurs in `text` as a run of consecutive tokens
Contains(text, part) ==
  \E k \in 0..(Len(text) - Len(part)) :
    \A j \in 1..Len(part) : text[k + j] = part[j]

\* a config of None (config._current before any configuration is set up)
NoConfig == [none |-> TRUE, name |-> "", driver |-> "", version |-> <<>>]

\* the environment contexts (config objects) tests run under
Configs ==
  { [none |-> FALSE, name |-> "sqlite", driver |-> "pysqlite", version |-> <<3, 8>>],
    [none |-> FALSE, name |-> "postgresql", driver |-> "psycopg2", version |-> <<9, 1>>],
    [none |-> FALSE, name |-> "postgresql", driver |-> "psycopg2", version |-> <<8, 4>>] }

Tests == {"t1", "t2"}

TagNames == {"slow", "fast"}

\* what a test body can do: return a value or raise an error
BodyValues == {"v1"}
BodyErrors == { [type |-> "ValueError", text |-> <<"x">>] }

\* ------------------------------------------------------------ predicates

\* tuple comparison as Python compares tuples
TupleLt(a, b) ==
  \/ \E k \in 1..Len(a) :
       /\ k <= Len(b)
       /\ a[k] < b[k]
       /\ \A j \in 1..(k - 1) : a[j] = b[j]
  \/ /\ Len(a) < Len(b)
     /\ \A j \in 1..Len(a) : a[j] = b[j]

TupleLe(a, b) == a = b \/ TupleLt(a, b)

Pred(kind) ==
  [kind |-> kind, value |-> FALSE, db |-> <<>>, op |-> "None", spec |-> <<>>,
   lambda_ |-> "None", predicate |-> 0, predicates |-> <<>>, description |-> NoText]

BooleanPredicate(value, description) ==
  [Pred("Boolean") EXCEPT
     !.value = value,
     !.description = IF description # NoText THEN description
                     ELSE <<"boolean", BoolStr(value)>>]

\* db is the database name already split at "+": <<"postgresql", "psycopg2">>
SpecPredicate(db, op, spec, description) ==
  [Pred("Spec") EXCEPT !.db = db, !.op = op, !.spec = spec, !.description = description]

LambdaPredicate(lambda_, description) ==
  [Pred("Lambda") EXCEPT
     !.lambda_ = lambda_,
     !.description = IF description # NoText THEN description ELSE <<"custom function">>]

NotPredicate(predicate, description) ==
  [Pred("Not") EXCEPT !.predicate = predicate, !.description = description]

OrPredicate(predicates, description) ==
  [Pred("Or") EXCEPT !.predicates = predicates, !.description = description]

\* the user functions wrapped by LambdaPredicate objects
LambdaBody(lambda_, cfg) ==
  CASE lambda_ = "old_server" -> (~cfg.none /\ TupleLt(cfg.version, <<9, 0>>))
    [] OTHER -> FALSE

\* _server_version(engine)
server_version(cfg) == cfg.version

SpecOps == {"<", ">", "==", "!=", "<=", ">=", "in", "between"}

\* SpecPredicate._ops[op](version, spec); for between, spec is a pair of
\* tuples, and "IndexError" is raised when it holds fewer than two
ops(op, version, spec) ==
  CASE op = "<" -> BoolStr(TupleLt(version, spec))
    [] op = ">" -> BoolStr(TupleLt(spec, version))
    [] op = "==" -> BoolStr(version = spec)
    [] op = "!=" -> BoolStr(version # spec)
    [] op = "<=" -> BoolStr(TupleLe(version, spec))
    [] op = ">=" -> BoolStr(TupleLe(spec, version))
    [] op = "in" -> "False"   \* operator.contains(version, spec): a tuple is no member of a tuple of numbers
    [] op = "between" ->
         IF Len(spec) < 2 THEN "IndexError"
         ELSE BoolStr(TupleLe(spec[1], version) /\ TupleLe(version, spec[2]))

\* SpecPredicate.__call__: "True", "False" or the type of the error raised
SpecCall(p, cfg) ==
  IF cfg.none THEN "False"
  ELSE IF Len(p.db) > 2 THEN "ValueError"
  ELSE LET dialect == p.db[1]
           hasDriver == Len(p.db) = 2
       IN IF dialect # "" /\ cfg.name # dialect THEN "False"
          ELSE IF hasDriver /\ cfg.driver # p.db[2] THEN "False"
          ELSE IF p.op # "None"
                 THEN IF hasDriver THEN "AssertionError"
                      ELSE IF p.op \notin SpecOps THEN "KeyError"
                      ELSE ops(p.op, server_version(cfg), p.spec)
                 ELSE "True"

NotStr(r) == IF r = "True" THEN "False" ELSE IF r = "False" THEN "True" ELSE r

RECURSIVE Call(_, _, _)
RECURSIVE OrCall(_, _, _, _)

\* OrPredicate.__call__ from member k on: the first member that is true or
\* raises decides
OrCall(P, ps, k, cfg) ==
  IF k > Len(ps) THEN "False"
  ELSE LET r == Call(P, ps[k], cfg)
       IN IF r = "False" THEN OrCall(P, ps, k + 1, cfg) ELSE r

\* predicate(config) for the object i of heap P: "True", "False" or the type
\* of the error raised
Call(P, i, cfg) ==
  LET p == P[i] IN
  CASE p.kind = "Boolean" -> BoolStr(p.value)
    [] p.kind = "Spec" -> SpecCall(p, cfg)
    [] p.kind = "Lambda" -> BoolStr(LambdaBody(p.lambda_, cfg))
    [] p.kind = "Not" -> NotStr(Call(P, p.predicate, cfg))
    [] p.kind = "Or" -> OrCall(P, p.predicates, 1, cfg)

Matches(P, i, cfg) == Call(P, i, cfg) = "True"

Raised(r) == r \notin {"True", "False"}

\* ---------------------------------------------- descriptions (_as_string)

\* the result of a call that returns text or raises: raised is "None" or the
\* type of the error
Text(text) == [raised |-> "None", text |-> text]
RaisedText(type) == [raised |-> type, text |-> <<>>]

\* one token of self.description % {...}
FormatToken(tok, cfg, bool_) ==
  CASE tok = "%(driver)s" -> IF cfg.none THEN "<no driver>" ELSE cfg.driver
    [] tok = "%(database)s" -> IF cfg.none THEN "<no database>" ELSE cfg.name
    [] tok = "%(doesnt_support)s" -> IF bool_ THEN "doesn't support" ELSE "does support"
    [] tok = "%(does_support)s" -> IF bool_ THEN "does support" ELSE "doesn't support"
    [] OTHER -> tok

\* Predicate._format_description
format_description(P, i, cfg, negate) ==
  LET r == Call(P, i, cfg)
      bool_ == IF negate THEN ~negate ELSE r = "True"
      d == P[i].description
  IN IF Raised(r) THEN RaisedText(r)
     ELSE Text([k \in 1..Len(d) |-> FormatToken(d[k], cfg, bool_)])

\* "%s" % self.db
DbText(db) == JoinTexts([k \in 1..Len(db) |-> <<db[k]>>], "+")

RECURSIVE as_string(_, _, _, _)
RECURSIVE eval_str_from(_, _, _, _, _)

\* the texts of members k.. of an OrPredicate, in list order, or the first
\* error one of them raises
eval_str_from(P, ps, k, cfg, negate) ==
  IF k > Len(ps) THEN [raised |-> "None", texts |-> <<>>]
  ELSE LET s == as_string(P, ps[k], cfg, negate)
           rest == eval_str_from(P, ps, k + 1, cfg, negate)
       IN IF s.raised # "None" THEN [raised |-> s.raised, texts |-> <<>>]
          ELSE IF rest.raised # "None" THEN rest
          ELSE [raised |-> "None", texts |-> <<s.text>> \o rest.texts]

\* OrPredicate._eval_str
eval_str(P, i, cfg, negate) ==
  LET r == eval_str_from(P, P[i].predicates, 1, cfg, negate)
  IN IF r.raised # "None" THEN RaisedText(r.raised)
     ELSE Text(JoinTexts(r.texts, IF negate THEN "and" ELSE "or"))

\* OrPredicate._negation_str
negation_str(P, i, cfg) ==
  IF P[i].description # NoText
    THEN LET f == format_description(P, i, cfg, FALSE)
         IN IF f.raised # "None" THEN f ELSE Text(<<"Not">> \o f.text)
    ELSE eval_str(P, i, cfg, TRUE)

\* predicate._as_string(config, negate) for the object i of heap P
as_string(P, i, cfg, negate) ==
  LET p == P[i] IN
  CASE p.kind = "Boolean" -> format_description(P, i, cfg, negate)
    [] p.kind = "Spec" ->
         IF p.description # NoText THEN format_description(P, i, cfg, FALSE)
         ELSE IF p.op = "None"
           THEN Text((IF negate THEN <<"not">> ELSE <<>>) \o DbText(p.db))
           ELSE Text((IF negate THEN <<"not">> ELSE <<>>)
                     \o DbText(p.db) \o <<p.op, ToString(p.spec)>>)
    [] p.kind = "Lambda" -> format_description(P, i, cfg, FALSE)
    [] p.kind = "Not" ->
         IF p.description # NoText THEN format_description(P, i, cfg, ~negate)
         ELSE as_string(P, p.predicate, cfg, ~negate)
    [] p.kind = "Or" ->
         IF negate THEN negation_str(P, i, cfg)
         ELSE IF p.description # NoText THEN format_description(P, i, cfg, FALSE)
         ELSE eval_str(P, i, cfg, FALSE)

\* ------------------------------------------------------ compound (rules)

RECURSIVE SortedSeq(_)
\* the members of a set of object ids, ascending
SortedSeq(S) ==
  IF S = {} THEN <<>>
  ELSE LET m == CHOOSE x \in S : \A y \in S : x <= y
       IN <<m>> \o SortedSeq(S \ {m})

RECURSIVE Perms(_)
\* the orders in which a set can be iterated
Perms(S) ==
  IF S = {} THEN {<<>>}
  ELSE UNION {{<<x>> \o q : q \in Perms(S \ {x})} : x \in S}

\* compound.__init__
compound == [fails |-> {}, skips |-> {}, tags |-> {}]

\* as_skips that also keeps the fails as fails
as_skips_keeping_fails(self) ==
  [compound EXCEPT
     !.skips = self.skips \cup self.fails,
     !.fails = self.fails,
     !.tags = self.tags]

\* compound.as_skips
as_skips(self) ==
  [compound EXCEPT
     !.skips = self.skips \cup self.fails,
     !.tags = self.tags]

\* add that leaves out the tags of the others
add_without_other_tags(self, others) ==
  [fails |-> self.fails \cup UNION {others[k].fails : k \in 1..Len(others)},
   skips |-> self.skips \cup UNION {others[k].skips : k \in 1..Len(others)},
   tags |-> self.tags]

RECURSIVE add(_, _)
\* compound.add(*others), others a sequence of rules
add(self, others) ==
  IF Len(others) = 0
    THEN [compound EXCEPT !.fails = self.fails, !.skips = self.skips, !.tags = self.tags]
    ELSE LET copy == add(self, SubSeq(others, 1, Len(others) - 1))
             other == others[Len(others)]
         IN [fails |-> copy.fails \cup other.fails,
             skips |-> copy.skips \cup other.skips,
             tags |-> copy.tags \cup other.tags]

\* not_ that negates the fails and copies the skips as they are
not_skips_copied(P, self) ==
  LET fs == SortedSeq(self.fails)
      n == Len(P)
  IN [preds |-> P \o [k \in 1..Len(fs) |-> NotPredicate(fs[k], NoText)],
      rule |-> [compound EXCEPT
                  !.fails = {n + k : k \in 1..Len(fs)},
                  !.skips = self.skips,
                  !.tags = self.tags]]

\* compound.not_: the heap with the new NotPredicate objects, and the copy
not_(P, self) ==
  LET fs == SortedSeq(self.fails)
      ss == SortedSeq(self.skips)
      n == Len(P)
  IN [preds |-> P \o [k \in 1..Len(fs) |-> NotPredicate(fs[k], NoText)]
                  \o [k \in 1..Len(ss) |-> NotPredicate(ss[k], NoText)],
      rule |-> [compound EXCEPT
                  !.fails = {n + k : k \in 1..Len(fs)},
                  !.skips = {n + Len(fs) + k : k \in 1..Len(ss)},
                  !.tags = self.tags]]

\* the members of S whose call does not return False: iterating S in any
\* order, the first of these met ends a loop that tests predicate(config)
Deciding(P, S, cfg) == {i \in S : Call(P, i, cfg) # "False"}

\* enabled_for_config with the loop written over self.fails alone
enabled_for_config_fails_only(P, self, cfg) ==
  LET D == Deciding(P, self.fails, cfg)
  IN IF D = {} THEN {"True"}
     ELSE {IF Matches(P, d, cfg) THEN "False" ELSE Call(P, d, cfg) : d \in D}

\* enabled_for_config with the loop written over self.skips alone
enabled_for_config_skips_only(P, self, cfg) ==
  LET D == Deciding(P, self.skips, cfg)
  IN IF D = {} THEN {"True"}
     ELSE {IF Matches(P, d, cfg) THEN "False" ELSE Call(P, d, cfg) : d \in D}

\* compound.enabled_for_config: the results its loop can give ("True",
\* "False", or the type of an error a predicate raises)
enabled_for_config(P, self, cfg) ==
  LET D == Deciding(P, self.skips \cup self.fails, cfg)
  IN IF D = {} THEN {"True"}
     ELSE {IF Matches(P, d, cfg) THEN "False" ELSE Call(P, d, cfg) : d \in D}

\* include_test in which a tag of include_tags outweighs exclude_tags
include_test_include_wins(self, include_tags, exclude_tags) ==
  \/ self.tags \cap include_tags # {}
  \/ (include_tags = {} /\ self.tags \cap exclude_tags = {})

\* compound.include_test
include_test(self, include_tags, exclude_tags) ==
  /\ self.tags \cap exclude_tags = {}
  /\ (include_tags = {} \/ self.tags \cap include_tags # {})

\* compound._extend: self after the in-place update
_extend(self, other) ==
  [skips |-> self.skips \cup other.skips,
   fails |-> self.fails \cup other.fails,
   tags |-> self.tags \cup other.tags]

\* ------------------------------------------------- enforcement (_do etc.)

NoError == [type |-> "None", text |-> <<>>]

\* how a call ends: kind is "none" (still running), "return", "raise" or "skip"
Proceed == [kind |-> "none", value |-> "None", error |-> NoError]
Returned(v) == [kind |-> "return", value |-> v, error |-> NoError]
Raise(e) == [kind |-> "raise", value |-> "None", error |-> e]

\* an error raised while a predicate is evaluated
PredError(type) == [type |-> type, text |-> <<>>]

\* config.skip_test(msg): raises the harness's skip signal
skip_test(msg) ==
  [kind |-> "skip", value |-> "None", error |-> [type |-> "SkipTest", text |-> msg]]

\* util.raise_(ex, with_traceback=...): raises ex itself
raise_(ex) == Raise(ex)

\* do_skips with the loop written over self.fails
do_skips_over_fails(P, self, cfg, name) ==
  LET D == Deciding(P, self.fails, cfg)
  IN IF D = {} THEN {Proceed}
     ELSE { IF Matches(P, d, cfg)
              THEN skip_test(<<"'", name, "' :">> \o as_string(P, d, cfg, FALSE).text)
              ELSE Raise(PredError(Call(P, d, cfg)))
            : d \in D }

\* the skip loop of compound._do: the ways it can end (Proceed: no skip)
do_skips(P, self, cfg, name) ==
  LET D == Deciding(P, self.skips, cfg)
  IN IF D = {} THEN {Proceed}
     ELSE { IF Matches(P, d, cfg)
              THEN LET s == as_string(P, d, cfg, FALSE)
                   IN IF s.raised # "None" THEN Raise(PredError(s.raised))
                      ELSE skip_test(<<"'", name, "' :">> \o s.text)
              ELSE Raise(PredError(Call(P, d, cfg)))
            : d \in D }

\* expect_failure raising a new error in place of ex when no fail matches
expect_failure_wrapping(P, self, cfg, ex, name) ==
  LET D == Deciding(P, self.fails, cfg)
  IN IF D = {}
       THEN {[out |-> Raise([type |-> "AssertionError",
                             text |-> <<"Unexpected failure:">> \o ex.text]),
              printed |-> <<>>]}
       ELSE { [out |-> Returned("None"),
               printed |-> << <<name, "failed as expected (">>
                              \o as_string(P, d, cfg, FALSE).text
                              \o <<"):">> \o ex.text >>]
              : d \in D }

\* expect_failure without its break: one line for every matching fail
expect_failure_no_break(P, self, cfg, ex, name) ==
  LET D == Deciding(P, self.fails, cfg)
  IN IF D = {} THEN {[out |-> raise_(ex), printed |-> <<>>]}
     ELSE { [out |-> Returned("None"),
             printed |-> [k \in 1..Len(order) |->
                            <<name, "failed as expected (">>
                            \o as_string(P, order[k], cfg, FALSE).text
                            \o <<"):">> \o ex.text]]
            : order \in Perms(D) }

\* compound._expect_failure: the ways it can end, each with the line printed
expect_failure(P, self, cfg, ex, name) ==
  LET D == Deciding(P, self.fails, cfg)
  IN IF D = {} THEN {[out |-> raise_(ex), printed |-> <<>>]}
     ELSE { IF Matches(P, d, cfg)
              THEN LET s == as_string(P, d, cfg, FALSE)
                   IN IF s.raised # "None"
                        THEN [out |-> Raise(PredError(s.raised)), printed |-> <<>>]
                        ELSE [out |-> Returned("None"),
                              printed |-> << <<name, "failed as expected (">> \o s.text
                                             \o <<"):">> \o ex.text >>]
              ELSE [out |-> Raise(PredError(Call(P, d, cfg))), printed |-> <<>>]
            : d \in D }

RECURSIVE as_strings(_, _, _, _)
\* [fail._as_string(config) for fail in order[k..]], or the first error raised
as_strings(P, order, k, cfg) ==
  IF k > Len(order) THEN [raised |-> "None", texts |-> <<>>]
  ELSE LET s == as_string(P, order[k], cfg, FALSE)
           rest == as_strings(P, order, k + 1, cfg)
       IN IF s.raised # "None" THEN [raised |-> s.raised, texts |-> <<>>]
          ELSE IF rest.raised # "None" THEN rest
          ELSE [raised |-> "None", texts |-> <<s.text>> \o rest.texts]

\* the AssertionError of compound._expect_success for one iteration order
UnexpectedSuccess(P, order, cfg, name) ==
  LET j == as_strings(P, order, 1, cfg)
  IN IF j.raised # "None" THEN Raise(PredError(j.raised))
     ELSE Raise([type |-> "AssertionError",
                 text |-> <<"Unexpected success for '", name, "' (">>
                          \o JoinTexts(j.texts, "and") \o <<")">>])

\* expect_success raising whenever fails is not empty
expect_success_any_fails(P, self, cfg, name) ==
  IF self.fails = {} THEN {Returned("None")}
  ELSE {UnexpectedSuccess(P, order, cfg, name) : order \in Perms(self.fails)}

\* compound._expect_success: the ways it can end
expect_success(P, self, cfg, name) ==
  IF self.fails = {} THEN {Returned("None")}
  ELSE IF Deciding(P, self.fails, cfg) = {} THEN {Returned("None")}
  ELSE { LET first == CHOOSE k \in 1..Len(order) :
                        /\ Call(P, order[k], cfg) # "False"
                        /\ \A j \in 1..(k - 1) : Call(P, order[j], cfg) = "False"
         IN IF Matches(P, order[first], cfg)
              THEN UnexpectedSuccess(P, order, cfg, name)
              ELSE Raise(PredError(Call(P, order[first], cfg)))
         : order \in Perms(self.fails) }

\* compound._do after fn returned return_value: the ways it can end
do_returned(P, self, cfg, name, return_value) ==
  { IF o.kind = "return" THEN [out |-> Returned(return_value), printed |-> <<>>]
    ELSE [out |-> o, printed |-> <<>>]
    : o \in expect_success(P, self, cfg, name) }

\* compound._do after fn raised ex: the ways it can end
do_raised(P, self, cfg, name, ex) == expect_failure(P, self, cfg, ex, name)

\* all_fails holding the fails of self only
all_fails_fails_only(self) == [compound EXCEPT !.fails = self.fails]

\* compound.fail_if: the local all_fails of the block
all_fails(self) == [compound EXCEPT !.fails = self.skips \cup self.fails]

\* ------------------------------------------------------------ the state

\* the Predicate objects test modules hold before any rule is built
BasePreds ==
  << SpecPredicate(<<"sqlite">>, "None", <<>>, NoText),
     SpecPredicate(<<"postgresql">>, ">=", <<9, 0>>, NoText),
     LambdaPredicate("old_server", <<"%(database)s", "%(doesnt_support)s", "X">>) >>

NoFrame ==
  [kind |-> "none", self |-> 0, fn |-> "None", cfg |-> NoConfig,
   all_fails |-> compound, ncalls |-> 0, body |-> Proceed, result |-> Proceed]

Terminal == {"Skipped", "Completed", "Failed"}

Init ==
  /\ preds = BasePreds
  /\ rules = <<>>
  /\ ext = [t \in Tests |-> 0]
  /\ pc = "Pending"
  /\ cur = NoFrame
  /\ stdout = <<>>
  /\ made = <<>>
  /\ applied = [t \in Tests |-> compound]
  /\ InitWeb

\* Predicate.as_predicate(predicate, description) for a Predicate object:
\* the heap after the call
as_predicate(P, predicate, description) ==
  IF description # NoText /\ P[predicate].description = NoText
    THEN [P EXCEPT ![predicate].description = description]
    ELSE P

\* ----------------------------------------- descriptors (as_predicate)

\* A descriptor string is a sequence of tokens: a word ("postgresql"), a
\* digit, "+", " ", ".", a comparison operator, or any other piece of text.
\* Words are kept apart from each other by "+" or " ".
WordTokens == {"sqlite", "postgresql", "psycopg2", "x"}
DigitTokens == {"0", "8", "9"}
OpTokens == {">=", "==", "!=", "<=", "<", ">"}

\* int(tok) for a digit
DigitVal(tok) == CASE tok = "0" -> 0 [] tok = "8" -> 8 [] tok = "9" -> 9

RECURSIVE Run(_, _, _)
\* the number of consecutive tokens of text from position k on that are in S
Run(text, k, S) ==
  IF k > Len(text) \/ text[k] \notin S THEN 0
  ELSE 1 + Run(text, k + 1, S)

RECURSIVE Split(_, _)
\* text.split(sep): the pieces of text between the separators
Split(text, sep) ==
  IF \A k \in 1..Len(text) : text[k] # sep THEN <<text>>
  ELSE LET n == CHOOSE k \in 1..Len(text) :
                  text[k] = sep /\ \A j \in 1..(k - 1) : text[j] # sep
       IN <<SubSeq(text, 1, n - 1)>> \o Split(SubSeq(text, n + 1, Len(text)), sep)

RECURSIVE IntOf(_)
\* int(d) for a non-empty run of digits
IntOf(d) ==
  IF Len(d) = 0 THEN 0
  ELSE 10 * IntOf(SubSeq(d, 1, Len(d) - 1)) + DigitVal(d[Len(d)])

\* the database name a SpecPredicate holds, split at "+"
DbParts(db) ==
  LET parts == Split(db, "+")
  IN [k \in 1..Len(parts) |-> IF Len(parts[k]) = 0 THEN "" ELSE parts[k][1]]

\* re.match(r"([\+\w]+)\s*(?:(>=|==|!=|<=|<|>)\s*([\d\.]+))?", text): the
\* groups as token ranges; n1 = 0 when there is no match
Tokens(text) ==
  LET n1 == Run(text, 1, WordTokens \cup DigitTokens \cup {"+"})
      a == n1 + 1 + Run(text, n1 + 1, {" "})
      hasOp == a <= Len(text) /\ text[a] \in OpTokens
      b == a + 1 + Run(text, a + 1, {" "})
      n3 == IF hasOp THEN Run(text, b, DigitTokens \cup {"."}) ELSE 0
  IN [n1 |-> n1,
      op |-> IF n3 > 0 THEN text[a] ELSE "None",
      group3 |-> IF n3 > 0 THEN SubSeq(text, b, b + n3 - 1) ELSE <<>>,
      end |-> IF n3 > 0 THEN b + n3 - 1 ELSE n1]

\* a descriptor: what test modules pass where a predicate is expected
Descriptor(kind) ==
  [kind |-> kind, text |-> <<>>, db |-> <<>>, op |-> "None", spec |-> <<>>,
   lambda_ |-> "None", items |-> <<>>]

Str(text) == [Descriptor("str") EXCEPT !.text = text]
Tuple(db, op, spec) == [Descriptor("tuple") EXCEPT !.db = db, !.op = op, !.spec = spec]
Callable(lambda_) == [Descriptor("callable") EXCEPT !.lambda_ = lambda_]
Number == Descriptor("int")
List(items) == [Descriptor("list") EXCEPT !.items = items]

\* the result of a call that builds a Predicate object: the error raised, or
\* the heap after the call and the id of the object returned
Built(P, id) == [raised |-> "None", preds |-> P, id |-> id]
NotBuilt(P, type) == [raised |-> type, preds |-> P, id |-> 0]

\* the SpecPredicate for the groups of a matched string, or the ValueError
\* of a version that has an empty piece
spec_of_groups(P, text, tokens, parts, description) ==
  IF tokens.n1 = 0 THEN NotBuilt(P, "ValueError")
  ELSE IF tokens.op # "None" /\ \E k \in 1..Len(parts) : Len(parts[k]) = 0
    THEN NotBuilt(P, "ValueError")
  ELSE Built(Append(P, SpecPredicate(
               DbParts(SubSeq(text, 1, tokens.n1)),
               tokens.op,
               IF tokens.op = "None" THEN <<>>
               ELSE [k \in 1..Len(parts) |-> IntOf(parts[k])],
               description)),
             Len(P) + 1)

\* Predicate.as_predicate for a string
as_predicate_str(P, text, description) ==
  spec_of_groups(P, text, Tokens(text), Split(Tokens(text).group3, "."), description)

\* Predicate.as_predicate for a descriptor that is not a list
as_predicate_one(P, d, description) ==
  CASE d.kind = "str" -> as_predicate_str(P, d.text, description)
    [] d.kind = "tuple" ->
         Built(Append(P, SpecPredicate(DbParts(d.db), d.op, d.spec, NoText)), Len(P) + 1)
    [] d.kind = "callable" ->
         Built(Append(P, LambdaPredicate(d.lambda_, description)), Len(P) + 1)
    [] OTHER -> NotBuilt(P, "AssertionError")

\* the list comprehension after one more element: last is what
\* as_predicate made of it
with_predicate(P, front, last) ==
  IF last.raised # "None" THEN [raised |-> last.raised, preds |-> P, ids |-> <<>>]
  ELSE [raised |-> "None", preds |-> last.preds, ids |-> Append(front.ids, last.id)]

\* the list comprehension goes on to descriptor d unless it has raised
next_predicate(P, front, d, description) ==
  IF front.raised # "None" THEN front
  ELSE with_predicate(P, front, as_predicate_one(front.preds, d, description))

RECURSIVE as_predicates(_, _, _)
\* [as_predicate(pred) for pred in items]: the heap and the ids, or the
\* first error raised
as_predicates(P, items, description) ==
  IF Len(items) = 0 THEN [raised |-> "None", preds |-> P, ids |-> <<>>]
  ELSE next_predicate(P, as_predicates(P, SubSeq(items, 1, Len(items) - 1), description),
                      items[Len(items)], description)

\* OrPredicate(members, description) for the members a list comprehension made
or_members(P, members, description) ==
  IF members.raised # "None" THEN NotBuilt(P, members.raised)
  ELSE Built(Append(members.preds, OrPredicate(members.ids, description)),
             Len(members.preds) + 1)

\* OrPredicate([as_predicate(pred, each) for pred in items], description)
or_of(P, items, each, description) ==
  or_members(P, as_predicates(P, items, each), description)

\* Predicate.as_predicate(d, description) for a descriptor d
as_predicate_of(P, d, description) ==
  IF d.kind = "list" THEN or_of(P, d.items, NoText, description)
  ELSE as_predicate_one(P, d, description)

\* a new compound object on the heap
New(rule, how) ==
  /\ rules' = Append(rules, rule)
  /\ made' = Append(made, how)

Declaring == pc = "Pending"

\* skip_if(predicate, reason)
SkipIf(predicate, reason) ==
  /\ Declaring
  /\ preds' = as_predicate(preds, predicate, reason)
  /\ New([compound EXCEPT !.skips = {predicate}], <<"skip_if", predicate>>)
  /\ UNCHANGED <<ext, pc, cur, stdout, applied>>
  /\ UNCHANGED webapp

\* fails_if(predicate, reason)
FailsIf(predicate, reason) ==
  /\ Declaring
  /\ preds' = as_predicate(preds, predicate, reason)
  /\ New([compound EXCEPT !.fails = {predicate}], <<"fails_if", predicate>>)
  /\ UNCHANGED <<ext, pc, cur, stdout, applied>>
  /\ UNCHANGED webapp

\* tags(tagnames)
Tags(tagnames) ==
  /\ Declaring
  /\ New([compound EXCEPT !.tags = tagnames], <<"tags">>)
  /\ UNCHANGED <<preds, ext, pc, cur, stdout, applied>>
  /\ UNCHANGED webapp

\* a.add(*others), others a sequence of rule objects
Add(a, others) ==
  /\ Declaring
  /\ New(add(rules[a], [k \in 1..Len(others) |-> rules[others[k]]]), <<"add", a>> \o others)
  /\ UNCHANGED <<preds, ext, pc, cur, stdout, applied>>
  /\ UNCHANGED webapp

\* a.not_()
Not(a) ==
  /\ Declaring
  /\ LET r == not_(preds, rules[a])
     IN /\ Len(r.preds) <= MaxPreds
        /\ preds' = r.preds
        /\ New(r.rule, <<"not_", a>>)
  /\ UNCHANGED <<ext, pc, cur, stdout, applied>>
  /\ UNCHANGED webapp

\* a.as_skips()
AsSkips(a) ==
  /\ Declaring
  /\ New(as_skips(rules[a]), <<"as_skips", a>>)
  /\ UNCHANGED <<preds, ext, pc, cur, stdout, applied>>
  /\ UNCHANGED webapp

\* only_if with the predicate used as it is
only_if_not_inverted(P, predicate, reason) ==
  [preds |-> as_predicate(P, predicate, reason),
   rule |-> [compound EXCEPT !.skips = {predicate}]]

\* only_if(predicate, reason) for a Predicate object: the heap with the new
\* NotPredicate, and the rule
only_if(P, predicate, reason) ==
  LET n == Len(P) + 1
  IN [preds |-> as_predicate(Append(P, NotPredicate(predicate, NoText)), n, reason),
      rule |-> [compound EXCEPT !.skips = {n}]]

\* succeeds_if(predicate, reason) for a Predicate object
succeeds_if(P, predicate, reason) ==
  LET n == Len(P) + 1
  IN [preds |-> as_predicate(Append(P, NotPredicate(predicate, NoText)), n, reason),
      rule |-> [compound EXCEPT !.fails = {n}]]

\* a builder call raised: the test module that makes it fails to load
Rejected(builder, type) ==
  /\ pc' = "Failed"
  /\ cur' = [NoFrame EXCEPT !.kind = builder, !.result = Raise(PredError(type))]
  /\ UNCHANGED <<preds, rules, made>>

\* a builder call returned a rule
Accepted(P, rule, how) ==
  /\ Len(P) <= MaxPreds
  /\ preds' = P
  /\ New(rule, how)
  /\ UNCHANGED <<pc, cur>>

\* skip_if(d, reason) for a descriptor d
SkipIfDescriptor(d, reason) ==
  /\ Declaring
  /\ \E b \in {as_predicate_of(preds, d, reason)} :
        IF b.raised # "None" THEN Rejected("skip_if", b.raised)
        ELSE Accepted(b.preds, [compound EXCEPT !.skips = {b.id}], <<"skip_if", b.id, d>>)
  /\ UNCHANGED <<ext, stdout, applied>>
  /\ UNCHANGED webapp

\* fails_if(d, reason) for a descriptor d
FailsIfDescriptor(d, reason) ==
  /\ Declaring
  /\ \E b \in {as_predicate_of(preds, d, reason)} :
        IF b.raised # "None" THEN Rejected("fails_if", b.raised)
        ELSE Accepted(b.preds, [compound EXCEPT !.fails = {b.id}], <<"fails_if", b.id, d>>)
  /\ UNCHANGED <<ext, stdout, applied>>
  /\ UNCHANGED webapp

\* only_if(d, reason) for a descriptor d
OnlyIf(d, reason) ==
  /\ Declaring
  /\ \E b \in {as_predicate_of(preds, d, NoText)} :
        IF b.raised # "None" THEN Rejected("only_if", b.raised)
        ELSE \E r \in {only_if(b.preds, b.id, reason)} :
                Accepted(r.preds, r.rule, <<"only_if", b.id, d>>)
  /\ UNCHANGED <<ext, stdout, applied>>
  /\ UNCHANGED webapp

\* succeeds_if(d, reason) for a descriptor d
SucceedsIf(d, reason) ==
  /\ Declaring
  /\ \E b \in {as_predicate_of(preds, d, NoText)} :
        IF b.raised # "None" THEN Rejected("succeeds_if", b.raised)
        ELSE \E r \in {succeeds_if(b.preds, b.id, reason)} :
                Accepted(r.preds, r.rule, <<"succeeds_if", b.id, d>>)
  /\ UNCHANGED <<ext, stdout, applied>>
  /\ UNCHANGED webapp

\* fails_on_everything_except(*dbs)
FailsOnEverythingExcept(dbs) ==
  /\ Declaring
  /\ \E b \in {or_of(preds, dbs, NoText, NoText)} :
        IF b.raised # "None" THEN Rejected("fails_on_everything_except", b.raised)
        ELSE \E r \in {succeeds_if(b.preds, b.id, NoText)} :
                Accepted(r.preds, r.rule, <<"fails_on_everything_except", b.id, List(dbs)>>)
  /\ UNCHANGED <<ext, stdout, applied>>
  /\ UNCHANGED webapp

\* only_on(dbs, reason), dbs a list
OnlyOn(dbs, reason) ==
  /\ Declaring
  /\ \E b \in {or_of(preds, dbs, reason, NoText)} :
        IF b.raised # "None" THEN Rejected("only_on", b.raised)
        ELSE \E r \in {only_if(b.preds, b.id, NoText)} :
                Accepted(r.preds, r.rule, <<"only_on", b.id, List(dbs)>>)
  /\ UNCHANGED <<ext, stdout, applied>>
  /\ UNCHANGED webapp

\* db_spec(*dbs): returns an OrPredicate, no rule
DbSpec(dbs) ==
  /\ Declaring
  /\ \E b \in {or_of(preds, dbs, NoText, NoText)} :
        IF b.raised # "None" THEN Rejected("db_spec", b.raised)
        ELSE /\ Len(b.preds) <= MaxPreds
             /\ preds' = b.preds
             /\ UNCHANGED <<rules, made, pc, cur>>
  /\ UNCHANGED <<ext, stdout, applied>>
  /\ UNCHANGED webapp

\* the call of a Predicate object ended: it returned a boolean or raised
Called(builder, cfg, r) ==
  /\ pc' = IF Raised(r) THEN "Failed" ELSE "Completed"
  /\ cur' = [NoFrame EXCEPT
               !.kind = builder, !.cfg = cfg,
               !.result = IF Raised(r) THEN Raise(PredError(r)) ELSE Returned(r)]

\* against(config, *queries)
Against(cfg, queries) ==
  /\ Declaring
  /\ IF Len(queries) = 0 THEN Rejected("against", "AssertionError")
     ELSE \E b \in {or_of(preds, queries, NoText, NoText)} :
             IF b.raised # "None" THEN Rejected("against", b.raised)
             ELSE /\ Called("against", cfg, Call(b.preds, b.id, cfg))
                  /\ UNCHANGED <<preds, rules, made>>
  /\ UNCHANGED <<ext, stdout, applied>>
  /\ UNCHANGED webapp

\* _is_excluded(db, op, spec) under config._current = cfg
IsExcluded(d, cfg) ==
  /\ Declaring
  /\ Called("_is_excluded", cfg, SpecCall(SpecPredicate(DbParts(d.db), d.op, d.spec, NoText), cfg))
  /\ UNCHANGED <<preds, rules, made, ext, stdout, applied>>
  /\ UNCHANGED webapp

\* compound.__call__: rule object r applied to test t
Decorate(r, t) ==
  /\ pc = "Pending"
  /\ IF ext[t] # 0
       THEN /\ rules' = [rules EXCEPT ![ext[t]] = _extend(rules[ext[t]], rules[r])]
            /\ ext' = ext
       ELSE /\ ext' = [ext EXCEPT ![t] = r]
            /\ rules' = rules
  /\ applied' = [applied EXCEPT ![t] = add(applied[t], <<rules[r]>>)]
  /\ UNCHANGED <<preds, pc, cur, stdout, made>>
  /\ UNCHANGED webapp

\* the decorated test t is called under config._current = cfg: compound._do
\* up to the call of fn
Invoke(t, cfg) ==
  /\ pc = "Pending"
  /\ ext[t] # 0
  /\ \E o \in do_skips(preds, rules[ext[t]], cfg, t) :
       /\ pc' = IF o.kind = "none" THEN "Running"
                ELSE IF o.kind = "skip" THEN "Skipped" ELSE "Failed"
       /\ cur' = [NoFrame EXCEPT
                    !.kind = "_do", !.self = ext[t], !.fn = t, !.cfg = cfg,
                    !.ncalls = IF o.kind = "none" THEN 1 ELSE 0,
                    !.result = o]
  /\ stdout' = <<>>
  /\ UNCHANGED <<preds, rules, ext, made, applied>>
  /\ UNCHANGED webapp

\* with r.fail_if(): the block is entered under config._current = cfg
FailIf(r, cfg) ==
  /\ pc = "Pending"
  /\ pc' = "Running"
  /\ cur' = [NoFrame EXCEPT
               !.kind = "fail_if", !.self = r, !.fn = "block", !.cfg = cfg,
               !.all_fails = all_fails(rules[r]), !.ncalls = 1]
  /\ stdout' = <<>>
  /\ UNCHANGED <<preds, rules, ext, made, applied>>
  /\ UNCHANGED webapp

\* the ways the running wrapper or block can end for a body outcome
Reconcile(body) ==
  LET rule == IF cur.kind = "_do" THEN rules[cur.self] ELSE cur.all_fails
  IN IF body.kind = "return"
       THEN IF cur.kind = "_do"
              THEN do_returned(preds, rule, cur.cfg, cur.fn, body.value)
              ELSE {[out |-> o, printed |-> <<>>]
                    : o \in expect_success(preds, rule, cur.cfg, cur.fn)}
       ELSE IF cur.kind = "_do"
              THEN do_raised(preds, rule, cur.cfg, cur.fn, body.error)
              ELSE expect_failure(preds, rule, cur.cfg, body.error, cur.fn)

\* Finish that calls the body once more after an error
Finish_with_retry(body) ==
  /\ pc = "Running"
  /\ \E r \in Reconcile(body) :
       IF r.out.kind = "raise" /\ cur.ncalls < 2
         THEN /\ pc' = "Running"
              /\ cur' = [cur EXCEPT !.ncalls = 2]
              /\ stdout' = stdout
         ELSE /\ pc' = IF r.out.kind = "return" THEN "Completed" ELSE "Failed"
              /\ cur' = [cur EXCEPT !.body = body, !.result = r.out]
              /\ stdout' = stdout \o r.printed
  /\ UNCHANGED <<preds, rules, ext, made, applied>>
  /\ UNCHANGED webapp

Finish(body) ==
  /\ pc = "Running"
  /\ \E r \in Reconcile(body) :
       /\ pc' = IF r.out.kind = "return" THEN "Completed" ELSE "Failed"
       /\ cur' = [cur EXCEPT !.body = body, !.result = r.out]
       /\ stdout' = stdout \o r.printed
  /\ UNCHANGED <<preds, rules, ext, made, applied>>
  /\ UNCHANGED webapp

\* the test body (or block) returns value
BodyReturns(value) == Finish(Returned(value))

\* the test body (or block) raises ex
BodyRaises(ex) == Finish(Raise(ex))

\* the harness goes on to the next test
NextTest ==
  /\ pc \in Terminal
  /\ pc' = "Pending"
  /\ cur' = NoFrame
  /\ stdout' = <<>>
  /\ UNCHANGED <<preds, rules, ext, made, applied>>
  /\ UNCHANGED webapp

RuleIds == 1..Len(rules)

\* the Predicate objects test modules pass to the builders
BaseIds == 1..Len(BasePreds)

\* there is room for one more compound object
Room(n) == Len(rules) < n

\* test modules build rules, stack them on tests and the harness runs the tests
Next ==
  \/ \E p \in BaseIds : Room(MaxRules) /\ SkipIf(p, NoText)
  \/ \E p \in BaseIds : Room(MaxRules) /\ FailsIf(p, NoText)
  \/ \E tagname \in TagNames : Room(MaxRules) /\ Tags({tagname})
  \/ \E r \in RuleIds, t \in Tests : Decorate(r, t)
  \/ \E t \in Tests, cfg \in Configs : Invoke(t, cfg)
  \/ \E r \in RuleIds, cfg \in Configs : FailIf(r, cfg)
  \/ \E v \in BodyValues : BodyReturns(v)
  \/ \E ex \in BodyErrors : BodyRaises(ex)
  \/ NextTest

Spec == Init /\ [][Next]_vars

\* rules are built and composed; nothing is run
NextAlg ==
  \/ \E p \in BaseIds : Room(MaxHeap) /\ SkipIf(p, NoText)
  \/ \E p \in BaseIds : Room(MaxHeap) /\ FailsIf(p, NoText)
  \/ \E tagname \in TagNames : Room(MaxHeap) /\ Tags({tagname})
  \/ \E a \in RuleIds : Room(MaxHeap) /\ Add(a, <<>>)
  \/ \E a, b \in RuleIds : Room(MaxHeap) /\ Add(a, <<b>>)
  \/ \E a, b, c \in RuleIds : Room(MaxHeap) /\ Add(a, <<b, c>>)
  \/ \E a \in RuleIds : Room(MaxHeap) /\ Not(a)
  \/ \E a \in RuleIds : Room(MaxHeap) /\ AsSkips(a)

SpecAlg == Init /\ [][NextAlg]_vars

\* the descriptors test modules pass to the builders that the engine accepts
\* and that evaluate in every context
Descriptors ==
  << Str(<<"sqlite">>),
     Str(<<"postgresql", " ", ">=", " ", "9", ".", "0">>),
     Str(<<"postgresql", "+", "psycopg2">>),
     Callable("old_server"),
     Tuple(<<"postgresql">>, "between", << <<8, 0>>, <<9, 0>> >>) >>

\* the descriptor lists passed to the builders that take several
DescriptorLists ==
  { <<>>,
    <<Descriptors[1]>>,
    <<Descriptors[1], Descriptors[2]>>,
    <<Descriptors[3], Descriptors[1]>> }

\* rules are declared from descriptors
NextDecl ==
  \/ \E k \in 1..Len(Descriptors) : Room(MaxRules) /\ OnlyIf(Descriptors[k], NoText)
  \/ \E k \in 1..Len(Descriptors) : Room(MaxRules) /\ SucceedsIf(Descriptors[k], NoText)
  \/ \E dbs \in DescriptorLists : Room(MaxRules) /\ FailsOnEverythingExcept(dbs)
  \/ \E dbs \in DescriptorLists : Room(MaxRules) /\ OnlyOn(dbs, NoText)
  \/ \E dbs \in DescriptorLists : DbSpec(dbs)
  \/ \E cfg \in Configs, queries \in DescriptorLists : Against(cfg, queries)
  \/ NextTest

\* no Predicate object exists before the first declaration
InitDecl ==
  /\ preds = <<>>
  /\ rules = <<>>
  /\ ext = [t \in Tests |-> 0]
  /\ pc = "Pending"
  /\ cur = NoFrame
  /\ stdout = <<>>
  /\ made = <<>>
  /\ applied = [t \in Tests |-> compound]
  /\ InitWeb

SpecDecl == InitDecl /\ [][NextDecl]_vars

\* descriptors the spec calls malformed, or that name no database
BadDescriptors ==
  << Str(<<"postgresql", "+", "psycopg2", " ", ">=", " ", "9", ".", "0">>),
     Str(<<"postgresql", " ", ">=", " ", "x">>),
     Str(<<"postgresql", " ", ">=", " ", "9", ".", ".", "0">>),
     Str(<<">=", " ", "9", ".", "0">>),
     Tuple(<<"postgresql">>, "~=", <<9, 0>>),
     Tuple(<<"postgresql", "+", "psycopg2">>, ">=", <<9, 0>>),
     Number >>

AllDescriptors == Descriptors \o BadDescriptors

\* one rule is declared from any descriptor, and version checks are made
NextErr ==
  \/ \E k \in 1..Len(AllDescriptors) : Room(1) /\ SkipIfDescriptor(AllDescriptors[k], NoText)
  \/ \E k \in 1..Len(AllDescriptors) : Room(1) /\ FailsIfDescriptor(AllDescriptors[k], NoText)
  \/ \E k \in 1..Len(AllDescriptors), cfg \in Configs :
       AllDescriptors[k].kind = "tuple" /\ IsExcluded(AllDescriptors[k], cfg)
  \/ NextTest

SpecErr == InitDecl /\ [][NextErr]_vars

\* ----------------------------------------------- web application: app.py

\* generate_password_hash(password) and check_password_hash(hash, password)
generate_password_hash(password) == <<"hash", password>>
check_password_hash(hash, password) == hash = <<"hash", password>>

\* db.execute("SELECT * FROM users WHERE username = ?", username)
SelectUsers(username) == SelectSeq(users, LAMBDA row : row.username = username)

\* get_name(): the username of the row of users whose id is session["user_id"]
get_name ==
  LET rows == SelectSeq(users, LAMBDA row : row.id = session.user_id)
  IN rows[1].username

\* the response to the request handled, and what the handler did with tasks
Respond(handler, kind, to, read, wrote) ==
  response' = [handler |-> handler, authed |-> session.user_id # 0,
               kind |-> kind, to |-> to, read |-> read, wrote |-> wrote]

\* redirect(to) and render_template(to), no task read or written
Redirect(handler, to) == Respond(handler, "redirect", to, FALSE, FALSE)
Render(handler, to) == Respond(handler, "render", to, FALSE, FALSE)

\* request.form["action"] of a form that has no such field: 400 Bad Request
BadRequest(handler, read) == Respond(handler, "error", "400", read, FALSE)

\* a handler that is not wrapped: f runs whatever the session holds, and
\* session["user_id"] raises KeyError where it is missing
login_not_required(handler, f) ==
  IF session.user_id = 0
    THEN /\ Respond(handler, "error", "500", FALSE, FALSE)
         /\ UNCHANGED <<session, users, tasks, seq, attempt>>
    ELSE f

\* login_required(f): the decorated function
login_required(handler, f) ==
  IF session.user_id = 0
    THEN /\ Redirect(handler, "/login")
         /\ UNCHANGED <<session, users, tasks, seq, attempt>>
    ELSE f

\* login without the test of the password
login_any_password(method, username, password) ==
  /\ IF method = "POST" /\ username # NoField /\ password # NoField
          /\ Len(SelectUsers(username)) = 1
       THEN /\ session' = [user_id |-> SelectUsers(username)[1].id,
                           user_name |-> SelectUsers(username)[1].username]
            /\ attempt' = [method |-> method, username |-> username,
                           password |-> password]
            /\ Redirect("login", "/")
       ELSE /\ session' = NoSession
            /\ attempt' = NoAttempt
            /\ Render("login", "login.html")
  /\ UNCHANGED <<users, tasks, seq>>

\* login(): /login
login(method, username, password) ==
  /\ IF method = "POST"
       THEN IF username = NoField \/ password = NoField
              THEN /\ session' = NoSession
                   /\ attempt' = NoAttempt
                   /\ Render("login", "login.html")
              ELSE IF \/ Len(SelectUsers(username)) # 1
                      \/ ~check_password_hash(SelectUsers(username)[1].hash, password)
                     THEN /\ session' = NoSession
                          /\ attempt' = NoAttempt
                          /\ Render("login", "login.html")
                     ELSE /\ session' = [user_id |-> SelectUsers(username)[1].id,
                                         user_name |-> SelectUsers(username)[1].username]
                          /\ attempt' = [method |-> method, username |-> username,
                                         password |-> password]
                          /\ Redirect("login", "/")
       ELSE /\ session' = NoSession
            /\ attempt' = NoAttempt
            /\ Render("login", "login.html")
  /\ UNCHANGED <<users, tasks, seq>>

Login(method, username, password) ==
  /\ login(method, username, password)
  /\ UNCHANGED exclusions

\* register(): /register; CREATE TABLE IF NOT EXISTS makes the (empty) tasks
\* table of the new user
Register(method, name, passw, confirmation) ==
  /\ IF method = "POST"
       THEN IF \/ name = NoField
               \/ passw = NoField
               \/ confirmation = NoField
               \/ passw # confirmation
               \/ \E a \in 1..Len(users) : name = users[a].username
              THEN /\ Render("register", "register.html")
                   /\ users' = users
              ELSE /\ users' = Append(users, [id |-> Len(users) + 1, username |-> name,
                                              hash |-> generate_password_hash(passw)])
                   /\ Redirect("register", "/")
       ELSE /\ Render("register", "register.html")
            /\ users' = users
  /\ UNCHANGED <<session, tasks, seq, attempt>>
  /\ UNCHANGED exclusions

\* logout(): /logout
Logout ==
  /\ login_required("logout",
       /\ session' = NoSession
       /\ attempt' = NoAttempt
       /\ Redirect("logout", "/")
       /\ UNCHANGED <<users, tasks, seq>>)
  /\ UNCHANGED exclusions

\* index(): /
Index ==
  /\ login_required("index",
       /\ Respond("index", "render", "index.html", TRUE, FALSE)
       /\ UNCHANGED <<session, users, tasks, seq, attempt>>)
  /\ UNCHANGED exclusions

RECURSIVE Issued(_)
\* the number of task_ids AUTOINCREMENT has given out in the tables of names
Issued(names) ==
  IF names = {} THEN 0
  ELSE seq[CHOOSE name \in names : TRUE]
         + Issued(names \ {CHOOSE name \in names : TRUE})

\* add(): /add
AddTask(method, task) ==
  /\ login_required("add",
       /\ IF method = "POST" /\ task # NoField
            THEN /\ Issued(Usernames) < MaxTasks
                 /\ seq' = [seq EXCEPT ![get_name] = @ + 1]
                 /\ tasks' = [tasks EXCEPT ![get_name] =
                                @ \cup {[task_id |-> seq[get_name] + 1, task |-> task,
                                         status |-> "TODO", time |-> "datetime"]}]
                 /\ Respond("add", "redirect", "/", FALSE, TRUE)
            ELSE /\ Redirect("add", "/")
                 /\ UNCHANGED <<tasks, seq>>
       /\ UNCHANGED <<session, users, attempt>>)
  /\ UNCHANGED exclusions

\* an update to TRASH that deletes the rows instead
Update_removing(rows, status, page_id) ==
  IF status = "TRASH"
    THEN {row \in rows : \A k \in 1..Len(page_id) : page_id[k] # row.task_id}
    ELSE { IF \E k \in 1..Len(page_id) : page_id[k] = row.task_id
             THEN [row EXCEPT !.status = status, !.time = "date"]
             ELSE row
           : row \in rows }

\* db.execute("UPDATE ? SET status = ?, time = ? WHERE task_id = ?", ...) for
\* each a in page_id
Update(rows, status, page_id) ==
  { IF \E k \in 1..Len(page_id) : page_id[k] = row.task_id
      THEN [row EXCEPT !.status = status, !.time = "date"]
      ELSE row
    : row \in rows }

\* action(): /action
Action(method, page_id, action) ==
  /\ login_required("action",
       /\ IF method = "GET" \/ page_id = <<>>
            THEN /\ Redirect("action", "/")
                 /\ tasks' = tasks
            ELSE IF action = NoField
              THEN /\ BadRequest("action", FALSE)
                   /\ tasks' = tasks
            ELSE IF action = "delete"
              THEN /\ tasks' = [tasks EXCEPT ![get_name] = Update(@, "TRASH", page_id)]
                   /\ Respond("action", "redirect", "/", FALSE, TRUE)
            ELSE IF action = "finished"
              THEN /\ tasks' = [tasks EXCEPT ![get_name] = Update(@, "COMPLETED", page_id)]
                   /\ Respond("action", "redirect", "/", FALSE, TRUE)
            ELSE /\ Redirect("action", "/")
                 /\ tasks' = tasks
       /\ UNCHANGED <<session, users, seq, attempt>>)
  /\ UNCHANGED exclusions

\* completed(): /completed
Completed(method, page_id, action) ==
  /\ login_required("completed",
       /\ IF method = "GET"
            THEN /\ Respond("completed", "render", "completed.html", TRUE, FALSE)
                 /\ tasks' = tasks
            ELSE IF page_id = <<>>
              THEN /\ Respond("completed", "redirect", "/completed", TRUE, FALSE)
                   /\ tasks' = tasks
            ELSE IF action = NoField
              THEN /\ BadRequest("completed", TRUE)
                   /\ tasks' = tasks
            ELSE IF action = "delete"
              THEN /\ tasks' = [tasks EXCEPT ![get_name] = Update(@, "TRASH", page_id)]
                   /\ Respond("completed", "redirect", "/completed", TRUE, TRUE)
            ELSE /\ Respond("completed", "redirect", "/completed", TRUE, FALSE)
                 /\ tasks' = tasks
       /\ UNCHANGED <<session, users, seq, attempt>>)
  /\ UNCHANGED exclusions

\* trash(): /trash
Trash(method, action) ==
  /\ login_required("trash",
       /\ IF method = "GET"
            THEN /\ Respond("trash", "render", "trash.html", TRUE, FALSE)
                 /\ tasks' = tasks
            ELSE IF action = NoField
              THEN /\ BadRequest("trash", TRUE)
                   /\ tasks' = tasks
            ELSE IF action = "delete"
              THEN /\ tasks' = [tasks EXCEPT ![get_name] =
                                  {row \in @ : row.status # "TRASH"}]
                   /\ Respond("trash", "redirect", "/trash", TRUE, TRUE)
            ELSE /\ Respond("trash", "redirect", "/trash", TRUE, FALSE)
                 /\ tasks' = tasks
       /\ UNCHANGED <<session, users, seq, attempt>>)
  /\ UNCHANGED exclusions

\* what a browser can put in the forms
FormNames == Usernames \cup {NoField}
FormPasswords == Passwords \cup {"pw2", NoField}
FormTasks == TaskTexts \cup {NoField}
FormActions == {NoField, "delete", "finished", "restore"}
PageIds == {<<>>, <<1, 2>>} \cup {<<a>> : a \in 1..MaxTasks}

\* the browser sends any request at any time
NextWeb ==
  \/ \E method \in Methods, username \in FormNames, password \in FormPasswords :
       Login(method, username, password)
  \/ \E method \in Methods, name \in FormNames, passw \in Passwords \cup {NoField},
          confirmation \in FormPasswords :
       Register(method, name, passw, confirmation)
  \/ Logout
  \/ Index
  \/ \E method \in Methods, task \in FormTasks : AddTask(method, task)
  \/ \E method \in Methods, page_id \in PageIds, action \in FormActions :
       Action(method, page_id, action)
  \/ \E method \in Methods, page_id \in PageIds, action \in FormActions :
       Completed(method, page_id, action)
  \/ \E method \in Methods, action \in FormActions : Trash(method, action)

SpecWeb == InitDecl /\ [][NextWeb]_vars

\* ---------------------------------------------------------------- claims

\* the rule enforced by the current wrapper invocation
CurRule == rules[cur.self]

InWrapper == cur.kind = "_do"

SkipMatches == \E sk \in CurRule.skips : Matches(preds, sk, cur.cfg)

FailMatches == \E f \in CurRule.fails : Matches(preds, f, cur.cfg)

\* the wrapper's unexpected-success failure
IsUnexpectedSuccess(o) ==
  /\ o.kind = "raise"
  /\ o.error.type = "AssertionError"
  /\ Len(o.error.text) >= 1
  /\ o.error.text[1] = "Unexpected success for '"

\* C1: when a skip-predicate of the rule matches the context, the wrapper
\* invocation ends in the skip signal and the test body is never invoked,
\* whatever the rule's fails contain.
C1_SkipWins ==
  (InWrapper /\ SkipMatches) =>
    /\ pc = "Skipped"
    /\ cur.result.kind = "skip"
    /\ cur.ncalls = 0
    /\ cur.body.kind = "none"

\* a wrapper invocation skipped although a fail-predicate matches too
C1_Witness ==
  /\ InWrapper
  /\ pc = "Skipped"
  /\ SkipMatches
  /\ FailMatches

\* C2: when no skip matches, the body raises and no fail-predicate matches,
\* the wrapper raises that same error and prints no diagnostic.
C2_UnexpectedFailurePropagates ==
  (InWrapper /\ pc \in Terminal /\ ~SkipMatches
     /\ cur.body.kind = "raise" /\ ~FailMatches) =>
    /\ pc = "Failed"
    /\ cur.result = Raise(cur.body.error)
    /\ stdout = <<>>

\* the body raised under a rule whose fails are not empty and none matches
C2_Witness ==
  /\ InWrapper
  /\ pc = "Failed"
  /\ cur.body.kind = "raise"
  /\ CurRule.fails # {}
  /\ ~FailMatches

\* C3: when no skip matches, the body raises and some fail-predicate matches,
\* the wrapper returns normally and prints exactly one diagnostic, which holds
\* the description of a matching fail-predicate and the error's text.
C3_ExpectedFailureSwallowed ==
  (InWrapper /\ pc \in Terminal /\ ~SkipMatches
     /\ cur.body.kind = "raise" /\ FailMatches) =>
    /\ pc = "Completed"
    /\ cur.result.kind = "return"
    /\ Len(stdout) = 1
    /\ \E f \in CurRule.fails :
         /\ Matches(preds, f, cur.cfg)
         /\ Contains(stdout[1], as_string(preds, f, cur.cfg, FALSE).text)
    /\ Contains(stdout[1], cur.body.error.text)

\* an expected failure under a rule with two matching fails and one that
\* does not match
C3_Witness ==
  /\ InWrapper
  /\ pc = "Completed"
  /\ cur.body.kind = "raise"
  /\ Cardinality({f \in CurRule.fails : Matches(preds, f, cur.cfg)}) >= 2

\* C4: when no skip matches and the body returns, the wrapper raises the
\* unexpected-success failure exactly when some fail-predicate matches, and
\* otherwise returns the body's value.
C4_UnexpectedSuccessIffFailMatches ==
  (InWrapper /\ pc \in Terminal /\ ~SkipMatches /\ cur.body.kind = "return") =>
    IF FailMatches
      THEN pc = "Failed" /\ IsUnexpectedSuccess(cur.result)
      ELSE pc = "Completed" /\ cur.result = Returned(cur.body.value)

\* the body returned under a rule with fails of which none matches, and its
\* value came back
C4_Witness ==
  /\ InWrapper
  /\ pc = "Completed"
  /\ cur.body.kind = "return"
  /\ CurRule.fails # {}
  /\ cur.result.value \in BodyValues

\* C5: the unexpected-success failure names exactly the fail-predicates that
\* match the context; a fail-predicate that does not match is not named.
C5_NamesOnlyMatchingFails ==
  (InWrapper /\ cur.body.kind = "return" /\ IsUnexpectedSuccess(cur.result)) =>
    \A f \in CurRule.fails :
      Contains(cur.result.error.text, as_string(preds, f, cur.cfg, FALSE).text)
        <=> Matches(preds, f, cur.cfg)

\* C6: the skips, fails and tags of a compound object never change once it
\* is constructed.
C6_RulesImmutable ==
  [][\A i \in 1..Len(rules) : rules'[i] = rules[i]]_vars

\* C7: a decorated test is enforced by one layer whose rule is the union of
\* the rules applied to it, and its body is invoked at most once.
C7_StackedRulesAreUnion ==
  /\ \A t \in Tests : ext[t] # 0 => rules[ext[t]] = applied[t]
  /\ cur.ncalls <= 1

\* the contexts the composition laws are evaluated under
AnyConfig == Configs \cup {NoConfig}

\* the rule values on the heap
HeapRules == {rules[i] : i \in RuleIds}

\* the compound objects the last step put on the heap: every object is the
\* newest one in the state its construction leads to
Newest == {Len(rules)} \ {0}

\* the combinations of heap rules that include the newest one
Fresh(S) == \E r \in S : \E k \in Newest : r = rules[k]

\* the operand ids of the call that constructed rule k
Operands(k) == {made[k][j] : j \in 2..Len(made[k])}

\* C8: a.add(b) is a new rule whose skips, fails and tags are the unions of
\* those of a and b; add is commutative and associative, a.add(b, c) equals
\* a.add(b).add(c), and a.add() is a copy of a.  Each state checks the
\* combinations of heap rules that include the rule just built, and every
\* rule that add built against its operands.
C8_AddIsUnion ==
  /\ \A a, b \in HeapRules :
       Fresh({a, b}) =>
         LET ab == add(a, <<b>>)
         IN /\ ab.skips = a.skips \cup b.skips
            /\ ab.fails = a.fails \cup b.fails
            /\ ab.tags = a.tags \cup b.tags
            /\ ab = add(b, <<a>>)
  /\ \A a, b, c \in HeapRules :
       Fresh({a, b, c}) =>
         /\ add(add(a, <<b>>), <<c>>) = add(a, <<add(b, <<c>>)>>)
         /\ add(add(a, <<b>>), <<c>>) = add(a, <<b, c>>)
  /\ \A k \in Newest : add(rules[k], <<>>) = rules[k]
  /\ \A k \in RuleIds :
       made[k][1] = "add" =>
         /\ \A j \in Operands(k) : j < k
         /\ rules[k].skips = UNION {rules[j].skips : j \in Operands(k)}
         /\ rules[k].fails = UNION {rules[j].fails : j \in Operands(k)}
         /\ rules[k].tags = UNION {rules[j].tags : j \in Operands(k)}

\* a rule built by add from two rules that differ, and equal to neither
C8_Witness ==
  \E k \in RuleIds :
    /\ made[k][1] = "add"
    /\ Len(made[k]) = 3
    /\ rules[made[k][2]] # rules[made[k][3]]
    /\ rules[k] # rules[made[k][2]]
    /\ rules[k] # rules[made[k][3]]
    /\ rules[k].tags # {}
    /\ rules[k].skips \cup rules[k].fails # {}

\* every member of set N (heap Q) is a new NotPredicate of a member of set S,
\* every member of S has one, and each evaluates to the complement
Complements(Q, N, P, S) ==
  /\ \A x \in N :
       /\ x > Len(P)
       /\ Q[x].kind = "Not"
       /\ Q[x].predicate \in S
       /\ \A cfg \in AnyConfig :
            Matches(Q, x, cfg) <=> ~Matches(P, Q[x].predicate, cfg)
  /\ \A sk \in S : \E x \in N : Q[x].predicate = sk

\* the wrapper's behaviour under rule a (heap P) and rule b (heap Q) is the same
SameEnforcement(P, a, Q, b) ==
  \A cfg \in AnyConfig :
    /\ enabled_for_config(P, a, cfg) = enabled_for_config(Q, b, cfg)
    /\ do_skips(P, a, cfg, "t1") = do_skips(Q, b, cfg, "t1")
    /\ \A ex \in BodyErrors :
         do_raised(P, a, cfg, "t1", ex) = do_raised(Q, b, cfg, "t1", ex)
    /\ \A v \in BodyValues :
         do_returned(P, a, cfg, "t1", v) = do_returned(Q, b, cfg, "t1", v)

\* C9: not_ returns a new rule with the same tags whose skips and fails are
\* the complements of the original ones, and a rule negated twice has the
\* same enabled_for_config result and the same wrapper outcomes as the rule.
\* Each state checks the rule just built, and every rule that not_ built.
C9_NegateTwiceIsSame ==
  /\ \A i \in Newest :
       LET n == not_(preds, rules[i])
           nn == not_(n.preds, n.rule)
       IN /\ n.rule.tags = rules[i].tags
          /\ Complements(n.preds, n.rule.skips, preds, rules[i].skips)
          /\ Complements(n.preds, n.rule.fails, preds, rules[i].fails)
          /\ SameEnforcement(preds, rules[i], nn.preds, nn.rule)
  /\ \A k \in RuleIds :
       made[k][1] = "not_" =>
         /\ rules[k].tags = rules[made[k][2]].tags
         /\ \A x \in rules[k].skips :
              preds[x].kind = "Not" /\ preds[x].predicate \in rules[made[k][2]].skips
         /\ \A x \in rules[k].fails :
              preds[x].kind = "Not" /\ preds[x].predicate \in rules[made[k][2]].fails

\* a rule with a predicate has been negated, and the result negated again
C9_Witness ==
  \E k \in RuleIds :
    /\ made[k][1] = "not_"
    /\ made[made[k][2]][1] = "not_"
    /\ rules[k].skips # {}
    /\ \E x \in rules[k].skips, cfg \in Configs : Matches(preds, x, cfg)

\* under a rule without fails, what the body does passes through
PassesThrough(P, sk, cfg) ==
  /\ \A ex \in BodyErrors :
       do_raised(P, sk, cfg, "t1", ex) = {[out |-> Raise(ex), printed |-> <<>>]}
  /\ \A v \in BodyValues :
       do_returned(P, sk, cfg, "t1", v) = {[out |-> Returned(v), printed |-> <<>>]}

\* C10: r.as_skips() is a new rule with skips = r.skips + r.fails, no fails
\* and r's tags; a test wrapped with it is skipped exactly in the contexts
\* where r is not enabled, and otherwise what its body does passes through.
\* Each state checks the rule just built, and every rule that as_skips built.
C10_AsSkipsFoldsFails ==
  /\ \A i \in Newest :
       LET r == rules[i]
           sk == as_skips(r)
       IN /\ sk.skips = r.skips \cup r.fails
          /\ sk.fails = {}
          /\ sk.tags = r.tags
          /\ \A cfg \in AnyConfig :
               /\ PassesThrough(preds, sk, cfg)
               /\ IF enabled_for_config(preds, r, cfg) = {"True"}
                    THEN do_skips(preds, sk, cfg, "t1") = {Proceed}
                    ELSE \A o \in do_skips(preds, sk, cfg, "t1") : o.kind = "skip"
  /\ \A k \in RuleIds :
       made[k][1] = "as_skips" =>
         /\ made[k][2] < k
         /\ rules[k].skips = rules[made[k][2]].skips \cup rules[made[k][2]].fails
         /\ rules[k].fails = {}
         /\ rules[k].tags = rules[made[k][2]].tags

\* as_skips has been applied to a rule with a fail-predicate that matches
\* some context and not another
C10_Witness ==
  \E k \in RuleIds :
    /\ made[k][1] = "as_skips"
    /\ \E f \in rules[made[k][2]].fails, c1, c2 \in Configs :
         Matches(preds, f, c1) /\ ~Matches(preds, f, c2)

\* C11: enabled_for_config is true exactly when no predicate among the
\* rule's skips and fails matches the context; a rule without skips and fails
\* is enabled in every context, and the tags do not change the result.
\* Each state checks the rule just built.
C11_EnabledIffNothingMatches ==
  \A i \in Newest : \A cfg \in AnyConfig :
    LET r == rules[i]
        e == enabled_for_config(preds, r, cfg)
    IN /\ e \subseteq {"True", "False"}
       /\ Cardinality(e) = 1
       /\ ("True" \in e) <=>
            ~(\E p \in r.skips \cup r.fails : Matches(preds, p, cfg))
       /\ (r.skips \cup r.fails = {}) => e = {"True"}
       /\ \A T \in SUBSET TagNames :
            enabled_for_config(preds, [r EXCEPT !.tags = T], cfg) = e

\* a rule with tags, without skips, and with a fail-predicate that matches
\* one context and not another
C11_Witness ==
  \E i \in Newest :
    /\ rules[i].tags # {}
    /\ rules[i].skips = {}
    /\ \E f \in rules[i].fails, c1, c2 \in Configs :
         Matches(preds, f, c1) /\ ~Matches(preds, f, c2)

\* the tag sets a harness includes or excludes
TagSets == SUBSET TagNames

\* C12: include_test is true exactly when no tag of the rule is in
\* exclude_tags and (include_tags is empty or some tag of the rule is in
\* include_tags); a tag that is in both sets excludes, and the skips and fails
\* do not change the result.  Each state checks the rule just built.
C12_IncludeTest ==
  \A i \in Newest : \A inc \in TagSets, exc \in TagSets :
    LET r == rules[i]
        res == include_test(r, inc, exc)
    IN /\ res <=> /\ \A t \in r.tags : t \notin exc
                  /\ (inc = {} \/ \E t \in r.tags : t \in inc)
       /\ (\E t \in r.tags : t \in inc /\ t \in exc) => ~res
       /\ include_test([r EXCEPT !.skips = {}, !.fails = {}], inc, exc) = res
       /\ (r.tags = {"slow"}) =>
            /\ ~include_test(r, {}, {"slow"})
            /\ ~include_test(r, {"fast"}, {})
       /\ (r.tags = {"fast"}) => include_test(r, {"fast"}, {})
       /\ (r.tags = {}) => include_test(r, {}, {"slow"})

\* a rule with two tags: one of them is included while the other is excluded
C12_Witness ==
  \E i \in Newest :
    /\ rules[i].tags = {"slow", "fast"}
    /\ ~include_test(rules[i], {"fast"}, {"slow"})
    /\ include_test(rules[i], {"fast"}, {})

\* C13: a malformed descriptor raises when the rule is constructed and never
\* later, so evaluating a rule whose construction succeeded
\* (enabled_for_config, the wrapper's skip check) raises no error in any
\* context, and a string descriptor it was built from was matched to its end.
C13_MalformedRejectedAtConstruction ==
  \A k \in RuleIds :
    /\ made[k][3].kind = "str" => Tokens(made[k][3].text).end = Len(made[k][3].text)
    /\ \A cfg \in Configs :
         /\ \A e \in enabled_for_config(preds, rules[k], cfg) : ~Raised(e)
         /\ \A o \in do_skips(preds, rules[k], cfg, "t1") : o.kind # "raise"

\* what the claim gives for a SpecPredicate p under config cfg
SpecExpected(p, cfg) ==
  IF cfg.name # p.db[1] THEN "False"
  ELSE IF Len(p.db) >= 2 /\ cfg.driver # p.db[2] THEN "False"
  ELSE IF p.op = "None" THEN "True"
  ELSE IF p.op = "between"
    THEN BoolStr(TupleLe(p.spec[1], cfg.version) /\ TupleLe(cfg.version, p.spec[2]))
  ELSE BoolStr(CASE p.op = "<" -> TupleLt(cfg.version, p.spec)
                 [] p.op = ">" -> TupleLt(p.spec, cfg.version)
                 [] p.op = "==" -> cfg.version = p.spec
                 [] p.op = "!=" -> cfg.version # p.spec
                 [] p.op = "<=" -> ~TupleLt(p.spec, cfg.version)
                 [] p.op = ">=" -> ~TupleLt(cfg.version, p.spec))

\* C14: a SpecPredicate evaluates to false when the backend differs, to
\* false when a sub-identifier is given and differs from the driver, and
\* otherwise to the result of its operator on (context version, spec
\* version), or to true without an operator.
C14_SpecPredicateEvaluation ==
  \A i \in 1..Len(preds) : \A cfg \in Configs :
    (preds[i].kind = "Spec" /\ preds[i].op \in (SpecOps \ {"in"}) \cup {"None"}) =>
      Call(preds, i, cfg) = SpecExpected(preds[i], cfg)

\* C17: only_if(p) gives a rule whose one skip-predicate matches exactly
\* where p does not hold, so the test is skipped exactly there; succeeds_if(p)
\* gives a rule whose one fail-predicate matches exactly where p does not
\* hold, so the test is expected to fail exactly there;
\* fails_on_everything_except(d1..dn) expects failure exactly in the contexts
\* that none of d1..dn matches.
C17_InvertingBuilders ==
  \A k \in RuleIds :
    LET r == rules[k]
        p == made[k][2]
    IN /\ made[k][1] \in {"only_if", "only_on"} =>
            /\ r.fails = {}
            /\ Cardinality(r.skips) = 1
            /\ \A cfg \in AnyConfig :
                 /\ \A sk \in r.skips :
                      Matches(preds, sk, cfg) <=> ~Matches(preds, p, cfg)
                 /\ IF Matches(preds, p, cfg)
                      THEN do_skips(preds, r, cfg, "t1") = {Proceed}
                      ELSE \A o \in do_skips(preds, r, cfg, "t1") : o.kind = "skip"
       /\ made[k][1] \in {"succeeds_if", "fails_on_everything_except"} =>
            /\ r.skips = {}
            /\ Cardinality(r.fails) = 1
            /\ \A cfg \in AnyConfig :
                 /\ \A f \in r.fails :
                      Matches(preds, f, cfg) <=> ~Matches(preds, p, cfg)
                 /\ do_skips(preds, r, cfg, "t1") = {Proceed}
                 /\ \A ex \in BodyErrors : \A o \in do_raised(preds, r, cfg, "t1", ex) :
                      (o.out.kind = "return") <=> ~Matches(preds, p, cfg)
                 /\ \A v \in BodyValues : \A o \in do_returned(preds, r, cfg, "t1", v) :
                      IsUnexpectedSuccess(o.out) <=> ~Matches(preds, p, cfg)
       /\ made[k][1] = "fails_on_everything_except" =>
            /\ Len(preds[p].predicates) = Len(made[k][3].items)
            /\ \A cfg \in AnyConfig :
                 (\E f \in r.fails : Matches(preds, f, cfg)) <=>
                   ~(\E j \in 1..Len(preds[p].predicates) :
                       Matches(preds, preds[p].predicates[j], cfg))

\* a rule built by fails_on_everything_except from two descriptors expects
\* failure in one context and not in another, next to a rule built by only_if
C17_Witness ==
  /\ \E k \in RuleIds :
       /\ made[k][1] = "fails_on_everything_except"
       /\ Len(made[k][3].items) = 2
       /\ \E c1, c2 \in Configs :
            /\ \E f \in rules[k].fails : Matches(preds, f, c1)
            /\ ~(\E f \in rules[k].fails : Matches(preds, f, c2))
  /\ \E k \in RuleIds :
       /\ made[k][1] = "only_if"
       /\ \E c1, c2 \in Configs :
            /\ \E sk \in rules[k].skips : Matches(preds, sk, c1)
            /\ ~(\E sk \in rules[k].skips : Matches(preds, sk, c2))

\* C18: no builder that takes a list of descriptors returns a rule or a
\* predicate built from zero descriptors.
C18_EmptyDescriptorListsRejected ==
  /\ \A k \in RuleIds :
       made[k][1] \in {"fails_on_everything_except", "only_on"} =>
         made[k][3].items # <<>>
  /\ \A i \in 1..Len(preds) :
       preds[i].kind = "Or" => preds[i].predicates # <<>>

\* the frame is that of a with-block under fail_if
InBlock == cur.kind = "fail_if"

\* the rule the wrapper would enforce to treat every predicate of the
\* block's rule as a fail-predicate
Folded == [compound EXCEPT !.fails = CurRule.skips \cup CurRule.fails]

\* how a block ended when `expected` says whether a failure was expected:
\* an error is swallowed with one diagnostic if expected and re-raised
\* unchanged if not; a normal exit raises the unexpected-success failure if a
\* failure was expected and ends normally if not
BlockOutcome(expected) ==
  IF cur.body.kind = "raise"
    THEN IF expected
           THEN pc = "Completed" /\ cur.result.kind = "return" /\ Len(stdout) = 1
           ELSE pc = "Failed" /\ cur.result = Raise(cur.body.error) /\ stdout = <<>>
    ELSE IF expected
           THEN pc = "Failed" /\ IsUnexpectedSuccess(cur.result)
           ELSE pc = "Completed" /\ cur.result.kind = "return" /\ stdout = <<>>

\* C15 as stated: on exit of a fail_if block, a failure was expected exactly
\* when some fail-predicate of the rule matches the context.
C15_BlockFollowsFails ==
  (InBlock /\ pc \in Terminal) => BlockOutcome(FailMatches)

\* C15 amended: on exit of a fail_if block, a failure was expected exactly
\* when some skip-predicate or fail-predicate of the rule matches the
\* context, and the outcome is one the wrapper's steps 3 and 4 give for the
\* rule that holds all of them as fail-predicates.
C15_BlockFollowsSkipsAndFails ==
  (InBlock /\ pc \in Terminal) =>
    /\ BlockOutcome(SkipMatches \/ FailMatches)
    /\ IF cur.body.kind = "raise"
         THEN [out |-> cur.result, printed |-> stdout]
                \in do_raised(preds, Folded, cur.cfg, cur.fn, cur.body.error)
         ELSE \E o \in do_returned(preds, Folded, cur.cfg, cur.fn, cur.body.value) :
                /\ o.out.kind = cur.result.kind
                /\ o.out.error = cur.result.error

\* a block under a rule of which a skip-predicate matches and no
\* fail-predicate does raised, and the error was swallowed
C15_Witness ==
  /\ InBlock
  /\ pc = "Completed"
  /\ cur.body.kind = "raise"
  /\ SkipMatches
  /\ ~FailMatches

\* every way the wrapper can end for this body outcome has the same kind,
\* value and error type
Determined(body) ==
  \A r1, r2 \in Reconcile(body) :
    /\ r1.out.kind = r2.out.kind
    /\ r1.out.value = r2.out.value
    /\ r1.out.error.type = r2.out.error.type

\* C16: a wrapper invocation leaves Pending for Skipped (exactly when a
\* skip-predicate matches, the body not called) or for Running (the body
\* called once); it leaves Running only for Completed or Failed, the body
\* still called once, with an outcome fixed by the rule, the context and the
\* body's outcome; from Skipped, Completed and Failed there is no step of the
\* invocation, only the start of the next one.
C16_Lifecycle ==
  [][/\ (pc = "Pending" /\ pc' # "Pending" /\ cur'.kind = "_do") =>
          /\ pc' \in {"Skipped", "Running"}
          /\ pc' = "Skipped" <=>
               \E sk \in rules[cur'.self].skips : Matches(preds, sk, cur'.cfg)
          /\ cur'.ncalls = IF pc' = "Running" THEN 1 ELSE 0
     /\ (pc = "Running" /\ InWrapper /\ pc' # pc) =>
          /\ pc' \in {"Completed", "Failed"}
          /\ cur'.ncalls = 1
          /\ cur' = [cur EXCEPT !.body = cur'.body, !.result = cur'.result]
          /\ Determined(cur'.body)
          /\ \E r \in Reconcile(cur'.body) :
               /\ cur'.result = r.out
               /\ pc' = IF r.out.kind = "return" THEN "Completed" ELSE "Failed"
     /\ (pc = "Running" /\ InWrapper /\ pc' = pc) => cur' = cur
     /\ (pc \in Terminal /\ InWrapper) =>
          \/ pc' = pc /\ cur' = cur
          \/ pc' = "Pending" /\ cur' = NoFrame
    ]_vars

\* an invocation under a rule with skip-predicates of which none matches ran
\* the body once and completed
C16_Witness ==
  /\ InWrapper
  /\ pc = "Completed"
  /\ cur.ncalls = 1
  /\ CurRule.skips # {}
  /\ ~SkipMatches

\* C19: when enabled_for_config is true for the rule and context of a
\* finished wrapper invocation, the body was called once and the wrapper's
\* outcome is the body's own; when it is false, the invocation ended in a
\* skip, a swallowed expected failure or an unexpected-success failure.
C19_HarnessAndWrapperAgree ==
  (InWrapper /\ pc \in Terminal) =>
    IF enabled_for_config(preds, CurRule, cur.cfg) = {"True"}
      THEN /\ cur.ncalls = 1
           /\ cur.result = cur.body
           /\ stdout = <<>>
      ELSE /\ enabled_for_config(preds, CurRule, cur.cfg) = {"False"}
           /\ \/ pc = "Skipped" /\ cur.ncalls = 0
              \/ /\ pc = "Completed"
                 /\ cur.body.kind = "raise"
                 /\ cur.result.kind = "return"
                 /\ Len(stdout) = 1
              \/ /\ pc = "Failed"
                 /\ cur.body.kind = "return"
                 /\ IsUnexpectedSuccess(cur.result)

\* the harness check is false for the rule and context of an invocation in
\* which a failure of the body was swallowed
C19_Witness ==
  /\ InWrapper
  /\ pc = "Completed"
  /\ cur.body.kind = "raise"
  /\ cur.result.kind = "return"
  /\ enabled_for_config(preds, CurRule, cur.cfg) = {"False"}

\* the handlers app.py decorates with login_required
ProtectedHandlers == {"index", "add", "action", "completed", "trash", "logout"}

\* the session holds a user_id only of the one row of users the form of the
\* login request named, with the password that row's hash was made from
SessionIsOfLogin ==
  session.user_id # 0 =>
    /\ attempt.method = "POST"
    /\ Len(SelectUsers(attempt.username)) = 1
    /\ check_password_hash(SelectUsers(attempt.username)[1].hash, attempt.password)
    /\ session.user_id = SelectUsers(attempt.username)[1].id
    /\ session.user_name = attempt.username

\* the latest request was to a protected handler with no user_id in the
\* session: the response is the redirect to /login, no task read or written
ProtectedRedirects ==
  (response.handler \in ProtectedHandlers /\ ~response.authed) =>
    /\ response.kind = "redirect"
    /\ response.to = "/login"
    /\ ~response.read
    /\ ~response.wrote

\* C20: the session holds a user_id only if the latest login request since
\* it was cleared was a POST whose username has exactly one row in users and
\* whose password is that row's; a /login request that does not log in leaves
\* the session cleared; a protected handler called without a user_id in the
\* session redirects to /login and leaves the session and every tasks table
\* as they were.
C20_LoginGuardsTheSession ==
  /\ [](SessionIsOfLogin /\ ProtectedRedirects)
  /\ [][/\ (response'.handler = "login" /\ response'.kind = "render") =>
             session' = NoSession
        /\ (session.user_id = 0 /\ response'.handler \in ProtectedHandlers) =>
             /\ tasks' = tasks
             /\ seq' = seq
             /\ session' = session
             /\ response'.kind = "redirect"
             /\ response'.to = "/login"
       ]_vars

\* bob is logged in after ann was, both registered, and a protected handler
\* has answered
C20_Witness ==
  /\ Len(users) = 2
  /\ session.user_name = "bob"
  /\ attempt.username = "bob"
  /\ response.handler \in ProtectedHandlers
  /\ response.authed

\* C21: a step removes task rows only as the answer of /trash to POST with
\* action=delete; the rows removed had status TRASH and were in the table of
\* the logged-in user; that step leaves every other row of every table as it
\* was and creates none; a row that a step creates has status TODO and is
\* created by /add in the table of the logged-in user.
C21_OnlyTrashIsRemoved ==
  [][LET \* the rows of the table of name that the step removes: their
         \* task_id is in no row of the table afterwards
         Removed(name) ==
           {row \in tasks[name] :
              \A after \in tasks'[name] : after.task_id # row.task_id}
         \* the rows of the table of name that the step creates
         Created(name) ==
           {row \in tasks'[name] :
              \A before \in tasks[name] : before.task_id # row.task_id}
     IN
     \A name \in Usernames :
       /\ Removed(name) # {} =>
            /\ response'.handler = "trash"
            /\ response'.kind = "redirect"
            /\ response'.wrote
            /\ session.user_id # 0
            /\ name = get_name
            /\ \A row \in Removed(name) : row.status = "TRASH"
            /\ \A other \in Usernames :
                 /\ tasks'[other] \subseteq tasks[other]
                 /\ \A row \in tasks[other] :
                      (other # name \/ row.status \in {"TODO", "COMPLETED"}) =>
                        row \in tasks'[other]
       /\ Created(name) # {} =>
            /\ response'.handler = "add"
            /\ session.user_id # 0
            /\ name = get_name
            /\ \A row \in Created(name) : row.status = "TODO"
            /\ Removed(name) = {}
    ]_vars

\* the logged-in user was given two task rows, /trash has just emptied the
\* trash, one row is gone and the other is still there as TODO
C21_Witness ==
  /\ session.user_id # 0
  /\ response.handler = "trash"
  /\ response.wrote
  /\ seq[session.user_name] = 2
  /\ Cardinality(tasks[session.user_name]) = 1
  /\ \E row \in tasks[session.user_name] : row.status = "TODO"

====
